---- MODULE Spec2Model ----
(***************************************************************************)
(* A model of hcl2_eval: the execution engine of exec.py (ExecContext,     *)
(* Block, MatrixBlock, Eval) and the stanza engine of api.py / stanza.py   *)
(* (Context, CommonStanza).                                                *)
(*                                                                         *)
(* Python values are records of one shape, so that any two of them can be  *)
(* compared: a scalar carries its text in s ("1" and "2" stand for the     *)
(* integers 1 and 2), a list carries its elements in elems.  A Python dict *)
(* is the sequence of its (key, value) entries in insertion order.         *)
(***************************************************************************)
EXTENDS Integers, Sequences, FiniteSets, TLC

VARIABLES
    engine,     \* which engine runs: "exec" (exec.py) or "api" (api.py)
    blocks,     \* the Block (exec.py) or Stanza (stanza.py) objects created so far
    ctxs,       \* the ExecContext (exec.py) or Context (api.py) objects created so far
    frames,     \* the contexts of the active calls of execute, innermost last
    log,        \* history: the open_block and close calls made so far, in call order
    err,        \* the exception that ended the run, or NoErr
    nstmts      \* number of statements handed to the engine so far

vars == <<engine, blocks, ctxs, frames, log, err, nstmts>>

-----------------------------------------------------------------------------
(* Bounds *)

\* Statements the programs for matrix expansion hand to the engine.
MaxStmts == 4

\* Statements the programs for name resolution hand to the engine.
MaxNameStmts == 3

\* Statements the programs for attribute access hand to the engine.
MaxAccessStmts == 3

-----------------------------------------------------------------------------
(* Values, exceptions, dicts *)

Scalar(s) == [list |-> FALSE, s |-> s, elems |-> <<>>, keys |-> <<>>, ref |-> 0]
List(elems) == [list |-> TRUE, s |-> "", elems |-> elems, keys |-> <<>>, ref |-> 0]
\* A dict: its keys and, in elems, their values, in insertion order.
DictValue(keys, elems) ==
    [list |-> FALSE, s |-> "dict", elems |-> elems, keys |-> keys, ref |-> 0]
\* A value that is a Stanza object: ref is the stanza.
StanzaValue(b) == [list |-> FALSE, s |-> "Stanza", elems |-> <<>>, keys |-> <<>>, ref |-> b]
\* A value that is a Context object made by Context.stanza(stanza, parent):
\* ref is the stanza; the parent is the context whose attribute_get made it.
ContextValue(b) == [list |-> FALSE, s |-> "Context", elems |-> <<>>, keys |-> <<>>, ref |-> b]
None == Scalar("None")

\* An exception: its class, the operation that raised it (which fixes the
\* text of its message), the name the message holds, and, for a
\* ConfigurationError, the stanza it names and the causes it carries.
NoErr == [kind |-> "none", op |-> "", what |-> "", at |-> 0, causes |-> <<>>]
Raise(kind, op, what) ==
    [kind |-> kind, op |-> op, what |-> what, at |-> 0, causes |-> <<>>]
ConfigurationError(stanza, op, what, causes) ==
    [kind |-> "ConfigurationError", op |-> op, what |-> what, at |-> stanza,
     causes |-> causes]

\* The outcome of evaluating an expression: a value or a raised exception.
Ok(v) == [err |-> NoErr, val |-> v]
Fail(kind, op, what) == [err |-> Raise(kind, op, what), val |-> None]

DictHas(d, k) == \E i \in 1..Len(d) : d[i].k = k
DictGet(d, k) == d[CHOOSE i \in 1..Len(d) : d[i].k = k].v
DictSet(d, k, v) ==
    IF DictHas(d, k)
    THEN [i \in 1..Len(d) |-> IF d[i].k = k THEN [k |-> k, v |-> v] ELSE d[i]]
    ELSE Append(d, [k |-> k, v |-> v])
DictKeys(d) == [i \in 1..Len(d) |-> d[i].k]

-----------------------------------------------------------------------------
(* AST nodes (hcl2_ast.ast), one record shape per node family *)

NoExprs == <<>>
Literal(s) == [kind |-> "Literal", value |-> s, name |-> "", parts |-> <<>>,
               values |-> NoExprs, args |-> NoExprs]
Identifier(n) == [kind |-> "Identifier", value |-> "", name |-> n, parts |-> <<>>,
                  values |-> NoExprs, args |-> NoExprs]
Array(es) == [kind |-> "Array", value |-> "", name |-> "", parts |-> <<>>,
              values |-> es, args |-> NoExprs]
\* A FunctionCall carries its name and the segments of it: parts is
\* name.split("__").
FunctionCall(name, parts, as) == [kind |-> "FunctionCall", value |-> "", name |-> name,
                                  parts |-> parts, values |-> NoExprs, args |-> as]

\* The other expression nodes keep their operand expressions in values and
\* their field names or operator in parts and value.
Object(keys, es) == [kind |-> "Object", value |-> "", name |-> "", parts |-> keys,
                     values |-> es, args |-> NoExprs]
GetAttr(on, name) == [kind |-> "GetAttr", value |-> "", name |-> name, parts |-> <<>>,
                      values |-> <<on>>, args |-> NoExprs]
GetIndex(on, index) == [kind |-> "GetIndex", value |-> "", name |-> "", parts |-> <<>>,
                        values |-> <<on, index>>, args |-> NoExprs]
UnaryOp(op, expr) == [kind |-> "UnaryOp", value |-> op, name |-> "", parts |-> <<>>,
                      values |-> <<expr>>, args |-> NoExprs]
BinaryOp(op, left, right) == [kind |-> "BinaryOp", value |-> op, name |-> "", parts |-> <<>>,
                              values |-> <<left, right>>, args |-> NoExprs]
IndexSplat(on) == [kind |-> "IndexSplat", value |-> "", name |-> "", parts |-> <<>>,
                   values |-> <<on>>, args |-> NoExprs]
AttrSplat(on, name) == [kind |-> "AttrSplat", value |-> "", name |-> name, parts |-> <<>>,
                        values |-> <<on>>, args |-> NoExprs]

\* The subclasses of ast.Expression.
ExpressionKinds ==
    { "Literal", "Identifier", "Array", "Object", "FunctionCall", "GetAttr", "GetIndex",
      "UnaryOp", "BinaryOp", "IndexSplat", "AttrSplat" }

Attribute(key, value) == [kind |-> "Attribute", key |-> key, value |-> value,
                          name |-> "", args |-> NoExprs, body |-> <<>>]
BlockStmt(name, args, body) == [kind |-> "Block", key |-> "", value |-> Literal(""),
                                name |-> name, args |-> args, body |-> body]

\* Only ast.Attribute has a field named key; Identifier and GetAttr have name.
HasKey(node) == node.kind = "Attribute"

-----------------------------------------------------------------------------
(* Block classes.  MatrixBlock is the engine's; Root and Hello are the      *)
(* consumer's: a root block recognizing attributes v, r and the nested      *)
(* block hello, whose block recognizes attributes v, w.                     *)

BlockAttributes(cls) ==
    CASE cls = "Root" -> {"v", "r"}
      [] cls = "Hello" -> {"v", "w"}
      [] OTHER -> {}

\* __block_openers__ and __block_functions__ are dicts of the base class
\* Block, shared by every subclass: block or function name -> method name.
BlockOpeners == << [k |-> "hello", v |-> "hello"] >>
BlockFunctions == << [k |-> "cross", v |-> "_function_cross"] >>

\* hasattr(block, method): the methods each class defines.
Methods(cls) ==
    CASE cls = "Root" -> {"hello"}
      [] cls = "MatrixBlock" -> {"_function_cross"}
      [] OTHER -> {}

\* The class of the block that an opener method returns.
OpenerResult(method) == "Hello"

GlobalBlockOpeners == {"matrix"}

\* A Block or Stanza object.  attrs holds the attributes set on a Block, or
\* CommonStanza.attributes; values, mctx and id are MatrixBlock's _values, _ctx
\* and _id; stanza_openers and functions are CommonStanza's.
NewBlock(cls) ==
    [cls |-> cls, attrs |-> <<>>, values |-> <<>>, mctx |-> 0, id |-> None,
     stanza_openers |-> <<>>, functions |-> <<>>]
NewContext(block, parent) ==
    [block |-> block, parent |-> parent, named_blocks |-> <<>>, variables |-> <<>>]

-----------------------------------------------------------------------------
(* MatrixBlock.cross_product *)

\* itertools.product(*pools): result = [[]]; for each pool in turn,
\* result = [x + [y] for x in result for y in pool].
\* Mutant: the pool is the outer loop, so the first factor varies fastest.
ProductStepPoolOuter(result, pool) ==
    [i \in 1..(Len(result) * Len(pool)) |->
        Append(result[((i - 1) % Len(result)) + 1], pool[((i - 1) \div Len(result)) + 1])]

ProductStep(result, pool) ==
    [i \in 1..(Len(result) * Len(pool)) |->
        Append(result[((i - 1) \div Len(pool)) + 1], pool[((i - 1) % Len(pool)) + 1])]

RECURSIVE ProductFold(_, _, _)
ProductFold(result, pools, i) ==
    IF i > Len(pools) THEN result
    ELSE ProductFold(ProductStep(result, pools[i]), pools, i + 1)

Product(pools) == ProductFold(<< <<>> >>, pools, 1)

\* factors.append([(key, v) for v in values]) for each entry of _values.
Factors(values) ==
    [j \in 1..Len(values) |->
        [i \in 1..Len(values[j].v) |-> [k |-> values[j].k, v |-> values[j].v[i]]]]

\* Mutant: no factor, no combination.
CrossProductNoneForNoFactors(values) ==
    IF values = <<>> THEN <<>> ELSE Product(Factors(values))

\* dict(variables) of a tuple of (key, value) pairs; the keys are distinct.
CrossProduct(values) == Product(Factors(values))

-----------------------------------------------------------------------------
(* Expression evaluation and name resolution (exec.py).  A context is      *)
(* passed as its chain: the ExecContext itself, then its parent, up to the *)
(* root.                                                                   *)

RECURSIVE ChainOf(_, _)
ChainOf(cx, c) == IF c = 0 THEN <<>> ELSE <<cx[c]>> \o ChainOf(cx, cx[c].parent)

\* Mutant: the child context binds nothing.
SubChainUnbound(chain, variables) ==
    << [block |-> chain[1].block, parent |-> 0, named_blocks |-> <<>>,
        variables |-> <<>>] >> \o chain

\* ExecContext.with_variables, for a context that only evaluates.
SubChain(chain, variables) ==
    << [block |-> chain[1].block, parent |-> 0, named_blocks |-> <<>>,
        variables |-> variables] >> \o chain

\* Block.attr_get: reads node.key, which neither an Identifier nor a GetAttr
\* has, so for those nodes the access itself raises AttributeError.
BlockAttrGet(b, node) ==
    IF ~HasKey(node) THEN Fail("AttributeError", "getattr", "key")
    ELSE IF node.key \notin BlockAttributes(b.cls)
    THEN Fail("AttributeError", "attr_get", node.key)
    ELSE IF DictHas(b.attrs, node.key) THEN Ok(DictGet(b.attrs, node.key))
    ELSE Fail("AttributeError", "getattr", node.key)

RECURSIVE AttrGet(_, _, _)
AttrGet(bl, chain, node) ==
    LET self == chain[1] IN
    IF node.kind = "Identifier" /\ DictHas(self.variables, node.name)
    THEN Ok(DictGet(self.variables, node.name))
    ELSE LET r == BlockAttrGet(bl[self.block], node) IN
         IF r.err.kind = "AttributeError" /\ Len(chain) > 1
         THEN AttrGet(bl, Tail(chain), node)
         ELSE r

\* The object function_eval has walked to: the context itself, a named
\* block, or a plain value.
CurCtx == [tag |-> "ctx", block |-> 0, val |-> None]
CurBlock(b) == [tag |-> "block", block |-> b, val |-> None]
CurValue(v) == [tag |-> "value", block |-> 0, val |-> v]

\* getattr(current, name) on a block or a plain value.
GetAttrOf(bl, cur, name) ==
    IF cur.tag = "block" /\ DictHas(bl[cur.block].attrs, name)
    THEN [err |-> NoErr, cur |-> CurValue(DictGet(bl[cur.block].attrs, name))]
    ELSE [err |-> Raise("AttributeError", "getattr", name), cur |-> cur]

\* The while loop of function_eval.
RECURSIVE Walk(_, _, _, _)
Walk(bl, self, cur, parts) ==
    IF Len(parts) <= 1 THEN [err |-> NoErr, cur |-> cur, parts |-> parts]
    ELSE IF cur.tag = "ctx"
    THEN IF DictHas(self.named_blocks, parts[1])
         THEN Walk(bl, self, CurBlock(DictGet(self.named_blocks, parts[1])), Tail(parts))
         ELSE IF DictHas(self.variables, parts[1])
         THEN Walk(bl, self, CurValue(DictGet(self.variables, parts[1])), Tail(parts))
         ELSE [err |-> NoErr, cur |-> cur, parts |-> parts]
    ELSE LET g == GetAttrOf(bl, cur, parts[1]) IN
         IF g.err.kind # "none" THEN [err |-> g.err, cur |-> cur, parts |-> parts]
         ELSE Walk(bl, self, g.cur, Tail(parts))

\* getattr(value, name) on an evaluated value: no value an expression
\* evaluates to is an ExecContext, and none has an attribute of the names the
\* programs use.
GetAttrValue(value, name) == Fail("AttributeError", "getattr", name)

\* The operators of the table of _eval_BinaryOp.
BinaryOperators == {"==", "!=", "<", ">", "<=", ">=", "-", "*", "/", "%", "&&", "||", "+"}

\* bool(value)
Truthy(v) ==
    IF v.list \/ v.s = "dict" THEN v.elems # <<>>
    ELSE v.s \notin {"None", "False", "0", ""}

Bool(b) == Scalar(IF b THEN "True" ELSE "False")

\* func(left, right) for the operators the programs use: the comparisons
\* for equality.
ApplyBinary(op, left, right) ==
    CASE op = "==" -> Ok(Bool(left = right))
      [] op = "!=" -> Ok(Bool(left # right))

\* callable(current): no context, block or plain value is callable.
Callable(cur) == FALSE

RECURSIVE Eval(_, _, _), EvalAll(_, _, _), FunctionEval(_, _, _), CrossEach(_, _, _, _)

\* The loop of _function_cross: the argument once per combination.
CrossEach(bl, chain, combos, arg) ==
    IF combos = <<>> THEN [err |-> NoErr, vals |-> <<>>]
    ELSE LET r == Eval(bl, SubChain(chain, Head(combos)), arg) IN
         IF r.err.kind # "none" THEN [err |-> r.err, vals |-> <<>>]
         ELSE LET rest == CrossEach(bl, chain, Tail(combos), arg) IN
              [err |-> rest.err, vals |-> <<r.val>> \o rest.vals]

\* Mutant: an exception of the loop leaves _function_cross as it is.
FunctionCrossUnwrapped(bl, chain, b, node) ==
    IF Len(node.args) # 1 THEN Fail("ValueError", "cross", "")
    ELSE LET r == CrossEach(bl, chain, CrossProduct(bl[b].values), node.args[1]) IN
         IF r.err.kind # "none" THEN [err |-> r.err, val |-> None] ELSE Ok(List(r.vals))

\* MatrixBlock._function_cross: any exception of the loop is re-raised as a
\* bare Exception.
FunctionCross(bl, chain, b, node) ==
    IF Len(node.args) # 1 THEN Fail("ValueError", "cross", "")
    ELSE LET r == CrossEach(bl, chain, CrossProduct(bl[b].values), node.args[1]) IN
         IF r.err.kind # "none" THEN Fail("Exception", "cross", "") ELSE Ok(List(r.vals))

\* Block.function_eval
BlockFunctionEval(bl, chain, b, name, node) ==
    IF DictHas(BlockFunctions, name)
    THEN IF DictGet(BlockFunctions, name) \notin Methods(bl[b].cls)
         THEN Fail("AttributeError", "function_getattr", DictGet(BlockFunctions, name))
         ELSE FunctionCross(bl, chain, b, node)
    ELSE Fail("AttributeError", "block_function_eval", name)

\* ExecContext.function_eval
FunctionEval(bl, chain, node) ==
    LET w == Walk(bl, chain[1], CurCtx, node.parts)
        escalate == IF Len(chain) > 1 THEN FunctionEval(bl, Tail(chain), node)
                    ELSE Fail("AttributeError", "function_eval", node.name)
    IN  IF w.err.kind # "none" THEN [err |-> w.err, val |-> None]
        ELSE IF Len(w.parts) = 1 /\ w.cur.tag = "block"
        THEN LET r == BlockFunctionEval(bl, chain, w.cur.block, w.parts[1], node) IN
             IF r.err.kind = "AttributeError" THEN escalate ELSE r
        ELSE IF w.parts = <<>> /\ Callable(w.cur) THEN Fail("TypeError", "call", "")
        ELSE escalate

EvalAll(bl, chain, exprs) ==
    IF exprs = <<>> THEN [err |-> NoErr, vals |-> <<>>]
    ELSE LET r == Eval(bl, chain, Head(exprs)) IN
         IF r.err.kind # "none" THEN [err |-> r.err, vals |-> <<>>]
         ELSE LET rest == EvalAll(bl, chain, Tail(exprs)) IN
              [err |-> rest.err, vals |-> <<r.val>> \o rest.vals]

\* Eval.eval: dispatch on the node kind.  A string literal without
\* placeholders is returned by Template.substitute unchanged.
Eval(bl, chain, expr) ==
    CASE expr.kind = "Literal" -> Ok(Scalar(expr.value))
      [] expr.kind = "Identifier" -> AttrGet(bl, chain, expr)
      [] expr.kind = "Array" ->
            LET r == EvalAll(bl, chain, expr.values) IN
            IF r.err.kind # "none" THEN [err |-> r.err, val |-> None] ELSE Ok(List(r.vals))
      [] expr.kind = "Object" ->
            LET r == EvalAll(bl, chain, expr.values) IN
            IF r.err.kind # "none" THEN [err |-> r.err, val |-> None]
            ELSE Ok(DictValue(expr.parts, r.vals))
      [] expr.kind = "FunctionCall" -> FunctionEval(bl, chain, expr)
      [] expr.kind = "GetAttr" ->
            LET r == Eval(bl, chain, expr.values[1]) IN
            IF r.err.kind # "none" THEN r ELSE GetAttrValue(r.val, expr.name)
      [] expr.kind = "UnaryOp" ->
            LET r == Eval(bl, chain, expr.values[1]) IN
            IF r.err.kind # "none" THEN r ELSE Fail("TypeError", "call", "dict")
      [] expr.kind = "BinaryOp" ->
            IF expr.value \notin BinaryOperators THEN Fail("KeyError", "getitem", expr.value)
            ELSE LET r == EvalAll(bl, chain, expr.values) IN
                 IF r.err.kind # "none" THEN [err |-> r.err, val |-> None]
                 ELSE ApplyBinary(expr.value, r.vals[1], r.vals[2])
      [] OTHER -> Fail("AttributeError", "getattr", "_eval_")

\* func(value) for the operator the programs use: logical not.
ApplyUnary(op, value) == CASE op = "!" -> Ok(Bool(~Truthy(value)))

\* The integer a numeral of the programs stands for.
IntOf(s) == CASE s = "0" -> 0 [] s = "1" -> 1 [] s = "2" -> 2

\* value[index] for the values the programs index: a list by a numeral, a
\* dict by a key, and a number or None, which cannot be indexed.
GetItem(value, index) ==
    IF value.list
    THEN IF IntOf(index) < Len(value.elems) THEN Ok(value.elems[IntOf(index) + 1])
         ELSE Fail("IndexError", "getitem", index)
    ELSE IF value.s = "dict"
    THEN IF \E n \in 1..Len(value.keys) : value.keys[n] = index
         THEN Ok(value.elems[CHOOSE n \in 1..Len(value.keys) : value.keys[n] = index])
         ELSE Fail("KeyError", "getitem", index)
    ELSE Fail("TypeError", "getitem", index)

RECURSIVE EvalContextEval(_, _, _), EvalContextEvalAll(_, _, _)

EvalContextEvalAll(bl, chain, exprs) ==
    IF exprs = <<>> THEN [err |-> NoErr, vals |-> <<>>]
    ELSE LET r == EvalContextEval(bl, chain, Head(exprs)) IN
         IF r.err.kind # "none" THEN [err |-> r.err, vals |-> <<>>]
         ELSE LET rest == EvalContextEvalAll(bl, chain, Tail(exprs)) IN
              [err |-> rest.err, vals |-> <<r.val>> \o rest.vals]

\* EvalContext.eval (eval.py): dispatch on the node kind.
EvalContextEval(bl, chain, expr) ==
    CASE expr.kind = "Literal" -> Ok(Scalar(expr.value))
      [] expr.kind = "Identifier" -> AttrGet(bl, chain, expr)
      [] expr.kind = "Array" ->
            LET r == EvalContextEvalAll(bl, chain, expr.values) IN
            IF r.err.kind # "none" THEN [err |-> r.err, val |-> None] ELSE Ok(List(r.vals))
      [] expr.kind = "Object" ->
            LET r == EvalContextEvalAll(bl, chain, expr.values) IN
            IF r.err.kind # "none" THEN [err |-> r.err, val |-> None]
            ELSE Ok(DictValue(expr.parts, r.vals))
      [] expr.kind = "FunctionCall" -> FunctionEval(bl, chain, expr)
      [] expr.kind = "GetAttr" ->
            LET r == EvalContextEval(bl, chain, expr.values[1]) IN
            IF r.err.kind # "none" THEN r ELSE GetAttrValue(r.val, expr.name)
      [] expr.kind = "UnaryOp" ->
            IF expr.value \notin {"-", "!"} THEN Fail("KeyError", "getitem", expr.value)
            ELSE LET r == EvalContextEval(bl, chain, expr.values[1]) IN
                 IF r.err.kind # "none" THEN r
                 ELSE ApplyUnary(expr.value, r.val)
      [] expr.kind = "BinaryOp" ->
            IF expr.value \notin BinaryOperators THEN Fail("KeyError", "getitem", expr.value)
            ELSE LET r == EvalContextEvalAll(bl, chain, expr.values) IN
                 IF r.err.kind # "none" THEN [err |-> r.err, val |-> None]
                 ELSE ApplyBinary(expr.value, r.vals[1], r.vals[2])
      [] expr.kind = "GetIndex" ->
            LET r == EvalContextEval(bl, chain, expr.values[1]) IN
            IF r.err.kind # "none" THEN r ELSE GetItem(r.val, expr.values[2].value)
      [] expr.kind \in {"IndexSplat", "AttrSplat"} ->
            Fail("NotImplementedError", "eval", expr.kind)
      [] OTHER -> Fail("AttributeError", "getattr", "_eval_")

-----------------------------------------------------------------------------
(* Statement execution (exec.py).  st is the heap threaded through a call:  *)
(* the blocks, the contexts, the log and the pending exception.            *)

Throw(st, e) == [st EXCEPT !.err = e]

\* One logged call.  For open_block: the receiving block, the context and
\* the statement passed, the logged MatrixBlock.open_block call that made it
\* (0 when ExecContext.execute made it) and, for a MatrixBlock receiver, its
\* _values at the call.  For the stanza engine: a statement handed to
\* Interpreter.execute with its context, a stanza opened for a block
\* statement with the new context, and a call of close with its context.
Event(op, on, ctx, node, by, values) ==
    [op |-> op, on |-> on, ctx |-> ctx, node |-> node, by |-> by, values |-> values]

\* Mutant: the child context is created without the bindings.
WithVariablesUnbound(st, c, variables) ==
    [st EXCEPT !.ctxs = Append(@, NewContext(st.ctxs[c].block, c))]

\* ExecContext.with_variables
WithVariables(st, c, variables) ==
    [st EXCEPT !.ctxs = Append(@, [NewContext(st.ctxs[c].block, c)
                                      EXCEPT !.variables = variables])]

\* Mutant: the name is not looked up in __block_attributes__.
BlockAttrSetAnyName(st, c, node) ==
    LET b == st.ctxs[c].block
        r == Eval(st.blocks, ChainOf(st.ctxs, c), node.value)
    IN  IF r.err.kind # "none" THEN Throw(st, r.err)
        ELSE [st EXCEPT !.blocks[b].attrs = DictSet(@, node.key, r.val)]

\* Block.attr_set
BlockAttrSet(st, c, node) ==
    LET b == st.ctxs[c].block IN
    IF node.key \notin BlockAttributes(st.blocks[b].cls)
    THEN Throw(st, Raise("AttributeError", "attr_set", node.key))
    ELSE LET r == Eval(st.blocks, ChainOf(st.ctxs, c), node.value) IN
         IF r.err.kind # "none" THEN Throw(st, r.err)
         ELSE [st EXCEPT !.blocks[b].attrs = DictSet(@, node.key, r.val)]

\* Mutant: a value that is no list is not wrapped into one.
MatrixAttrSetUnwrapped(st, c, node) ==
    LET b == st.ctxs[c].block
        r == Eval(st.blocks, ChainOf(st.ctxs, c), node.value)
    IN  IF r.err.kind # "none" THEN Throw(st, r.err)
        ELSE [st EXCEPT !.blocks[b].values = DictSet(@, node.key, r.val.elems)]

\* MatrixBlock.attr_set
MatrixAttrSet(st, c, node) ==
    LET b == st.ctxs[c].block
        r == Eval(st.blocks, ChainOf(st.ctxs, c), node.value)
        value == IF r.val.list THEN r.val.elems ELSE <<r.val>>
    IN  IF r.err.kind # "none" THEN Throw(st, r.err)
        ELSE [st EXCEPT !.blocks[b].values = DictSet(@, node.key, value)]

\* self.block.attr_set(self, stmt), by the class of the block
AttrSet(st, c, node) ==
    IF st.blocks[st.ctxs[c].block].cls = "MatrixBlock"
    THEN MatrixAttrSet(st, c, node)
    ELSE BlockAttrSet(st, c, node)

\* The 'matrix' global opener up to the call of execute: the argument is
\* evaluated, MatrixBlock.__init__ registers the block under its id in the
\* opening context, and the block gets a context of its own.
MatrixOpen(st, c, node) ==
    LET r == IF node.args # <<>>
             THEN Eval(st.blocks, ChainOf(st.ctxs, c), node.args[1])
             ELSE Ok(None)
        b == Len(st.blocks) + 1
        block == [NewBlock("MatrixBlock") EXCEPT !.mctx = c, !.id = r.val]
    IN  IF r.err.kind # "none" THEN Throw(st, r.err)
        ELSE IF r.val.list THEN Throw(st, Raise("TypeError", "hash", ""))
        ELSE [st EXCEPT
                !.blocks = Append(@, block),
                !.ctxs = Append(IF r.val # None
                                THEN [@ EXCEPT ![c].named_blocks = DictSet(@, r.val.s, b)]
                                ELSE @,
                                NewContext(b, c))]

RECURSIVE Execute(_, _, _), ExecStmt(_, _, _), OpenBlock(_, _, _, _, _),
          ForEachCombination(_, _, _, _, _, _)

\* Mutant: the name is not looked up in __block_openers__.
BlockOpenBlockAnyName(st, b, c, node, by) ==
    LET st1 == [st EXCEPT !.log = Append(@, Event("open_block", b, c, node, by, <<>>))] IN
    Execute([st1 EXCEPT !.blocks = Append(@, NewBlock("Hello")),
                        !.ctxs = Append(@, NewContext(Len(st1.blocks) + 1, c))],
            Len(st1.ctxs) + 1, node.body)

\* Block.open_block
BlockOpenBlock(st, b, c, node, by) ==
    LET st1 == [st EXCEPT !.log = Append(@, Event("open_block", b, c, node, by, <<>>))]
        method == DictGet(BlockOpeners, node.name)
        nb == Len(st1.blocks) + 1
        nc == Len(st1.ctxs) + 1
    IN  IF ~DictHas(BlockOpeners, node.name)
        THEN Throw(st1, Raise("AttributeError", "open_block", node.name))
        ELSE IF method \notin Methods(st1.blocks[b].cls)
        THEN Throw(st1, Raise("AttributeError", "open_block_getattr", method))
        ELSE Execute([st1 EXCEPT !.blocks = Append(@, NewBlock(OpenerResult(method))),
                                 !.ctxs = Append(@, NewContext(nb, c))],
                     nc, node.body)

\* The loop of MatrixBlock.open_block over the combinations left.
ForEachCombination(st, b, c, node, combos, id) ==
    IF combos = <<>> \/ st.err.kind # "none" THEN st
    ELSE LET st1 == WithVariables(st, c, Head(combos))
             enclosing == st.ctxs[st.blocks[b].mctx].block
         IN  ForEachCombination(OpenBlock(st1, enclosing, Len(st1.ctxs), node, id),
                                b, c, node, Tail(combos), id)

\* Mutant: the nested block is opened once, whatever the factors.
MatrixOpenBlockUnexpanded(st, b, c, node, by) ==
    LET values == st.blocks[b].values
        st1 == [st EXCEPT !.log = Append(@, Event("matrix_open_block", b, c, node,
                                                  by, values))]
    IN  ForEachCombination(st1, b, c, node, << <<>> >>, Len(st1.log))

\* MatrixBlock.open_block
MatrixOpenBlock(st, b, c, node, by) ==
    LET values == st.blocks[b].values
        st1 == [st EXCEPT !.log = Append(@, Event("matrix_open_block", b, c, node,
                                                  by, values))]
    IN  ForEachCombination(st1, b, c, node, CrossProduct(values), Len(st1.log))

\* block.open_block(ctx, node), by the class of the block
OpenBlock(st, b, c, node, by) ==
    IF st.blocks[b].cls = "MatrixBlock"
    THEN MatrixOpenBlock(st, b, c, node, by)
    ELSE BlockOpenBlock(st, b, c, node, by)

\* One iteration of the loop of ExecContext.execute
ExecStmt(st, c, stmt) ==
    IF stmt.kind = "Attribute" THEN AttrSet(st, c, stmt)
    ELSE IF stmt.name \in GlobalBlockOpeners
    THEN LET st1 == MatrixOpen(st, c, stmt) IN
         IF st1.err.kind # "none" THEN st1 ELSE Execute(st1, Len(st1.ctxs), stmt.body)
    ELSE OpenBlock(st, st.ctxs[c].block, c, stmt, 0)

\* ExecContext.execute
Execute(st, c, stmts) ==
    IF stmts = <<>> \/ st.err.kind # "none" THEN st
    ELSE Execute(ExecStmt(st, c, Head(stmts)), c, Tail(stmts))

-----------------------------------------------------------------------------
(* The stanza engine (api.py, stanza.py).  A Context is a record of ctxs    *)
(* whose block is its target; block 0 is a target that is no Stanza.       *)

IsStanza(context) == context.block # 0

\* The stanzas of the consumer: the root is CommonStanza(v=None, r=None) with
\* an opener for hello and a function f; hello opens CommonStanza(v=None,
\* w=None).
NewStanza(template) ==
    IF template = "root"
    THEN [NewBlock("CommonStanza") EXCEPT
            !.attrs = << [k |-> "v", v |-> None], [k |-> "r", v |-> None] >>,
            !.stanza_openers = << [k |-> "hello", v |-> "hello"] >>,
            !.functions = << [k |-> "f", v |-> "first"] >>]
    ELSE [NewBlock("CommonStanza") EXCEPT
            !.attrs = << [k |-> "v", v |-> None], [k |-> "w", v |-> None] >>]

\* A Function of the consumer: f returns its first argument.
CallFunction(fn, args) ==
    IF args = <<>> THEN Fail("IndexError", "call", fn) ELSE Ok(args[1])

IsPlainType(v) == ~v.list /\ v.s # "dict" /\ v.ref = 0

\* ValueType: a plain value, or a list or dict of plain values.
IsValueType(v) == v.ref = 0 /\ \A n \in 1..Len(v.elems) : IsPlainType(v.elems[n])

\* Context.stanza(stanza, parent): the chain of the new context.
ContextStanza(b, chain) ==
    << [block |-> b, parent |-> 0, named_blocks |-> <<>>, variables |-> <<>>] >> \o chain

\* CommonStanza.attribute_get
StanzaAttributeGet(bl, b, name) ==
    IF DictHas(bl[b].attrs, name) THEN Ok(DictGet(bl[b].attrs, name))
    ELSE [err |-> ConfigurationError(b, "attribute", name, <<>>), val |-> None]

\* CommonStanza.function_get
StanzaFunctionGet(bl, b, name) ==
    IF DictHas(bl[b].functions, name)
    THEN [err |-> NoErr, fn |-> DictGet(bl[b].functions, name)]
    ELSE [err |-> ConfigurationError(b, "function", name, <<>>), fn |-> ""]

\* The loop of Context.attribute_get over iter_hierarchy_up.
RECURSIVE AttributeGetLoop(_, _, _, _, _)
AttributeGetLoop(bl, self, chain, name, exceptions) ==
    IF chain = <<>>
    THEN [err |-> ConfigurationError(self.block, "attribute", name, exceptions),
          val |-> None]
    ELSE IF IsStanza(Head(chain))
    THEN LET r == StanzaAttributeGet(bl, Head(chain).block, name) IN
         IF r.err.kind = "ConfigurationError"
         THEN AttributeGetLoop(bl, self, Tail(chain), name, Append(exceptions, r.err))
         ELSE IF r.val.s = "Stanza" /\ r.val.ref # 0 THEN Ok(ContextValue(r.val.ref))
         ELSE r
    ELSE AttributeGetLoop(bl, self, Tail(chain), name, exceptions)

\* Mutant: the final failure drops the failures collected.
ContextAttributeGetNoCauses(bl, chain, name) ==
    LET r == AttributeGetLoop(bl, chain[1], chain, name, <<>>) IN
    IF r.err.kind # "none"
    THEN [err |-> ConfigurationError(chain[1].block, "attribute", name, <<>>), val |-> None]
    ELSE r

\* Context.attribute_get
ContextAttributeGet(bl, chain, name) == AttributeGetLoop(bl, chain[1], chain, name, <<>>)

\* The loop of Context.function_get over iter_hierarchy_up.
RECURSIVE FunctionGetLoop(_, _, _, _, _)
FunctionGetLoop(bl, self, chain, name, exceptions) ==
    IF chain = <<>>
    THEN [err |-> ConfigurationError(self.block, "function", name, exceptions), fn |-> ""]
    ELSE IF IsStanza(Head(chain))
    THEN LET r == StanzaFunctionGet(bl, Head(chain).block, name) IN
         IF r.err.kind = "ConfigurationError"
         THEN FunctionGetLoop(bl, self, Tail(chain), name, Append(exceptions, r.err))
         ELSE r
    ELSE FunctionGetLoop(bl, self, Tail(chain), name, exceptions)

\* Context.function_get
ContextFunctionGet(bl, chain, name) == FunctionGetLoop(bl, chain[1], chain, name, <<>>)

\* The kinds for which Evaluator defines a method _eval_<kind>.
EvaluatorHandlers ==
    { "Literal", "Identifier", "Array", "Object", "FunctionCall", "GetAttr", "UnaryOp",
      "BinaryOp" }

RECURSIVE Evaluate(_, _, _), EvaluateAll(_, _, _), EvaluatorHandle(_, _, _)

EvaluateAll(bl, chain, exprs) ==
    IF exprs = <<>> THEN [err |-> NoErr, vals |-> <<>>]
    ELSE LET r == Evaluate(bl, chain, Head(exprs)) IN
         IF r.err.kind # "none" THEN [err |-> r.err, vals |-> <<>>]
         ELSE LET rest == EvaluateAll(bl, chain, Tail(exprs)) IN
              [err |-> rest.err, vals |-> <<r.val>> \o rest.vals]

\* The methods _eval_<kind> of Evaluator.
EvaluatorHandle(bl, chain, expr) ==
    CASE expr.kind = "Literal" -> Ok(Scalar(expr.value))
      [] expr.kind = "Identifier" -> ContextAttributeGet(bl, chain, expr.name)
      [] expr.kind = "Array" ->
            LET r == EvaluateAll(bl, chain, expr.values) IN
            IF r.err.kind # "none" THEN [err |-> r.err, val |-> None] ELSE Ok(List(r.vals))
      [] expr.kind = "Object" ->
            LET r == EvaluateAll(bl, chain, expr.values) IN
            IF r.err.kind # "none" THEN [err |-> r.err, val |-> None]
            ELSE Ok(DictValue(expr.parts, r.vals))
      [] expr.kind = "FunctionCall" ->
            LET f == ContextFunctionGet(bl, chain, expr.name)
                args == EvaluateAll(bl, chain, expr.args)
            IN  IF f.err.kind # "none" THEN [err |-> f.err, val |-> None]
                ELSE IF args.err.kind # "none" THEN [err |-> args.err, val |-> None]
                ELSE CallFunction(f.fn, args.vals)
      [] expr.kind = "GetAttr" ->
            LET r == Evaluate(bl, chain, expr.values[1]) IN
            IF r.err.kind # "none" THEN r
            ELSE IF r.val.s = "Context" /\ r.val.ref # 0
            THEN ContextAttributeGet(bl, ContextStanza(r.val.ref, chain), expr.name)
            ELSE r
      [] expr.kind \in {"UnaryOp", "BinaryOp"} ->
            Fail("NotImplementedError", "evaluate", expr.kind)

\* Evaluator.evaluate: dispatch on the node kind; the value returned is
\* checked to be a ValueType.
Evaluate(bl, chain, expr) ==
    IF expr.kind \notin EvaluatorHandlers THEN Fail("AttributeError", "getattr", "_eval_")
    ELSE LET r == EvaluatorHandle(bl, chain, expr) IN
         IF r.err.kind = "none" /\ ~IsValueType(r.val)
         THEN Fail("BeartypeException", "evaluate", expr.kind)
         ELSE r

\* Context.attribute_set and CommonStanza.attribute_set
ContextAttributeSet(st, c, name, value) ==
    LET b == st.ctxs[c].block IN
    IF ~IsValueType(value) THEN Throw(st, Raise("BeartypeException", "attribute_set", name))
    ELSE IF ~IsStanza(st.ctxs[c]) \/ ~DictHas(st.blocks[b].attrs, name)
    THEN Throw(st, ConfigurationError(b, "attribute", name, <<>>))
    ELSE [st EXCEPT !.blocks[b].attrs = DictSet(@, name, value)]

\* Interpreter._handle_Attribute
HandleAttribute(st, c, attr) ==
    LET r == Evaluate(st.blocks, ChainOf(st.ctxs, c), attr.value) IN
    IF r.err.kind # "none" THEN Throw(st, r.err)
    ELSE ContextAttributeSet(st, c, attr.key, r.val)

\* Context.stanza_open and CommonStanza.stanza_open: the new context.
ContextStanzaOpen(st, c, name, args) ==
    LET b == st.ctxs[c].block IN
    IF ~IsStanza(st.ctxs[c]) \/ ~DictHas(st.blocks[b].stanza_openers, name)
    THEN Throw(st, ConfigurationError(b, "stanza", name, <<>>))
    ELSE [st EXCEPT
            !.blocks = Append(@, NewStanza(DictGet(st.blocks[b].stanza_openers, name))),
            !.ctxs = Append(@, NewContext(Len(st.blocks) + 1, c))]

\* Mutant: the call of close is not made.
ContextCloseSkipped(st, c) == st

\* Context.close: Stanza.close does nothing; the call is logged.
ContextClose(st, c) ==
    [st EXCEPT !.log = Append(@, Event("close", st.ctxs[c].block, c,
                                        BlockStmt("", <<>>, <<>>), 0, <<>>))]

RECURSIVE InterpreterExecute(_, _, _), HandleAll(_, _, _)

\* Interpreter._handle_Block; enable_blocks and disable_blocks are None.
HandleBlock(st, c, block) ==
    LET args == EvaluateAll(st.blocks, ChainOf(st.ctxs, c), block.args)
        st1 == ContextStanzaOpen(st, c, block.name, args.vals)
        opened == [st1 EXCEPT !.log = Append(@, Event("stanza_open", Len(st1.blocks),
                                                      Len(st1.ctxs), block, 0, <<>>))]
        st2 == HandleAll(opened, Len(st1.ctxs), block.body)
    IN  IF args.err.kind # "none" THEN Throw(st, args.err)
        ELSE IF st1.err.kind # "none" THEN st1
        ELSE IF st2.err.kind # "none" THEN st2
        ELSE ContextClose(st2, Len(st1.ctxs))

\* The loop over the statements of a body.
HandleAll(st, c, stmts) ==
    IF stmts = <<>> \/ st.err.kind # "none" THEN st
    ELSE HandleAll(InterpreterExecute(st, c, Head(stmts)), c, Tail(stmts))

\* Interpreter.execute of a statement; the call is logged.
InterpreterExecute(st, c, stmt) ==
    LET st1 == [st EXCEPT !.log = Append(@, Event("execute", st.ctxs[c].block, c,
                                                  stmt, 0, <<>>))]
    IN  IF stmt.kind = "Attribute" THEN HandleAttribute(st1, c, stmt)
        ELSE HandleBlock(st1, c, stmt)

-----------------------------------------------------------------------------
(* The programs run.  In the execution engine, statements are handed to    *)
(* the innermost active call of execute one at a time; the body of a       *)
(* matrix statement is handed over the same way, the body of any other     *)
(* block statement is fixed with it.  In the stanza engine the statements  *)
(* of the module are handed to Interpreter.execute one at a time.          *)

FactorExprs ==
    { Array(<<>>), Array(<<Literal("1"), Literal("2")>>),
      Array(<<Literal("1"), Literal("1")>>), Literal("1") }

\* Statements for matrix expansion.
AttrStmts ==
    { Attribute(k, e) : k \in {"a", "b"}, e \in FactorExprs }
    \cup { Attribute("v", Literal("1")) }

BlockStmts ==
    { BlockStmt("hello", <<>>, body) :
        body \in { <<>>, << Attribute("v", Identifier("a")) >>,
                   << Attribute("v", Identifier("b")) >> } }

MatrixStmts == { BlockStmt("matrix", <<>>, <<>>) }

\* Statements for name resolution.
CrossCall(args) == FunctionCall("m__cross", <<"m", "cross">>, args)
FCall(args) == FunctionCall("f", <<"f">>, args)

NameExprs ==
    { Literal("1"), CrossCall(<<Identifier("a")>>), CrossCall(<<>>),
      CrossCall(<<Identifier("z")>>), FCall(<<Literal("2")>>), FCall(<<Identifier("z")>>) }

NameAttrStmts ==
    { Attribute(k, Array(<<Literal("1"), Literal("2")>>)) : k \in {"a", "b"} }
    \cup { Attribute("v", e) : e \in NameExprs }
    \cup { Attribute("r", Literal("2")) }

NameBlockStmts ==
    { BlockStmt("hello", <<>>, body) :
        body \in { <<>>,
                   << Attribute("r", Literal("1")) >>,
                   << Attribute("v", Literal("1")), Attribute("w", Identifier("v")) >>,
                   << Attribute("w", Identifier("z")) >>,
                   << Attribute("v", CrossCall(<<Identifier("a")>>)) >>,
                   << BlockStmt("hello", <<>>, <<>>) >>,
                   << BlockStmt("nope", <<>>, <<>>) >> } }

NameMatrixStmts ==
    { BlockStmt("matrix", args, <<>>) : args \in { <<>>, <<Literal("m")>> } }

St == [blocks |-> blocks, ctxs |-> ctxs, log |-> log, err |-> err]

Top == frames[Len(frames)]

Running == err = NoErr /\ frames # <<>>

\* The heap after a statement.
Becomes(st) ==
    /\ blocks' = st.blocks
    /\ ctxs' = st.ctxs
    /\ log' = st.log
    /\ err' = st.err
    /\ nstmts' = nstmts + 1
    /\ UNCHANGED engine

\* ExecContext(root_block).execute(...) is about to run.
Init ==
    /\ engine = "exec"
    /\ blocks = << NewBlock("Root") >>
    /\ ctxs = << NewContext(1, 0) >>
    /\ frames = <<1>>
    /\ log = <<>>
    /\ err = NoErr
    /\ nstmts = 0

\* Interpreter.execute(module, context) is about to run, with the consumer's
\* root stanza or with a target that is no Stanza.
InitApi ==
    /\ engine = "api"
    /\ blocks = << NewStanza("root") >>
    /\ \E target \in {0, 1} : ctxs = << NewContext(target, 0) >>
    /\ frames = <<1>>
    /\ log = <<>>
    /\ err = NoErr
    /\ nstmts = 0

\* Interpreter.execute(module, context) is about to run, with a root stanza
\* CommonStanza(v=None, r=None, s=CommonStanza(w="5")) of the consumer.
InitHeld ==
    /\ engine = "api"
    /\ blocks = << [NewStanza("root") EXCEPT
                        !.attrs = Append(@, [k |-> "s", v |-> StanzaValue(2)])],
                   [NewBlock("CommonStanza") EXCEPT
                        !.attrs = << [k |-> "w", v |-> Scalar("5")] >>] >>
    /\ ctxs = << NewContext(1, 0) >>
    /\ frames = <<1>>
    /\ log = <<>>
    /\ err = NoErr
    /\ nstmts = 0

\* The statement has been executed in the active call: an exception
\* unwinds every active call.
Done(st) ==
    /\ Becomes(st)
    /\ frames' = IF st.err.kind # "none" THEN <<>> ELSE frames

\* The matrix statement has opened its block: its body becomes the
\* innermost active call.
Entered(st) ==
    /\ Becomes(st)
    /\ frames' = IF st.err.kind # "none" THEN <<>> ELSE Append(frames, Len(st.ctxs))

\* An attribute statement or a block statement other than matrix; an
\* exception unwinds every active call.
ExecuteStmt(stmt) ==
    /\ engine = "exec"
    /\ Running
    /\ nstmts < MaxStmts
    /\ Done(ExecStmt(St, Top, stmt))

\* A matrix statement: its body becomes the innermost active call.
ExecuteMatrix(stmt) ==
    /\ engine = "exec"
    /\ Running
    /\ nstmts < MaxStmts
    /\ Entered(MatrixOpen(St, Top, stmt))

\* The innermost active call of execute has no statement left.
Return ==
    /\ engine = "exec"
    /\ Running
    /\ frames' = SubSeq(frames, 1, Len(frames) - 1)
    /\ UNCHANGED <<engine, blocks, ctxs, log, err, nstmts>>

\* Interpreter.execute of one statement of the module.
Interpret(stmt) ==
    /\ engine = "api"
    /\ Running
    /\ nstmts < MaxStmts
    /\ Done(InterpreterExecute(St, Top, stmt))

Next ==
    \/ \E stmt \in AttrStmts : ExecuteStmt(stmt)
    \/ \E stmt \in BlockStmts : ExecuteStmt(stmt)
    \/ \E stmt \in MatrixStmts : ExecuteMatrix(stmt)
    \/ Return

Spec == Init /\ [][Next]_vars

NextNames ==
    \/ \E stmt \in NameAttrStmts : nstmts < MaxNameStmts /\ ExecuteStmt(stmt)
    \/ \E stmt \in NameBlockStmts : nstmts < MaxNameStmts /\ ExecuteStmt(stmt)
    \/ \E stmt \in NameMatrixStmts : nstmts < MaxNameStmts /\ ExecuteMatrix(stmt)
    \/ Return
    \/ \E stmt \in NameAttrStmts \cup NameBlockStmts \cup NameMatrixStmts :
            nstmts < MaxNameStmts /\ Interpret(stmt)

SpecNames == (Init \/ InitApi) /\ [][NextNames]_vars

\* Statements for attribute access on values.
AccessExprs ==
    { Literal("1"), Identifier("s"), GetAttr(Identifier("s"), "w"),
      GetAttr(Identifier("s"), "r"), GetAttr(Identifier("v"), "r"),
      GetIndex(Array(<<Literal("1")>>), Literal("0")) }

AccessStmts ==
    { Attribute("v", e) : e \in AccessExprs }
    \cup { Attribute("r", Literal("2")) }
    \cup { BlockStmt("hello", <<>>, body) :
              body \in { << Attribute("w", Literal("3")) >>,
                         << Attribute("w", GetAttr(Identifier("s"), "r")) >> } }

NextAccess == \E stmt \in AccessStmts : nstmts < MaxAccessStmts /\ Interpret(stmt)

SpecAccess == InitHeld /\ [][NextAccess]_vars

-----------------------------------------------------------------------------
(* Claims *)

MatrixBlocks == { b \in 1..Len(blocks) : blocks[b].cls = "MatrixBlock" }

RECURSIVE Flatten(_)
Flatten(seqs) == IF seqs = <<>> THEN <<>> ELSE Head(seqs) \o Flatten(Tail(seqs))

\* The combinations by nested loops, the first factor in the outermost loop.
RECURSIVE NestedLoops(_)
NestedLoops(values) ==
    IF values = <<>> THEN << <<>> >>
    ELSE LET f == Head(values)
             inner == NestedLoops(Tail(values))
         IN  Flatten([i \in 1..Len(f.v) |->
                        [j \in 1..Len(inner) |-> <<[k |-> f.k, v |-> f.v[i]]>> \o inner[j]]])

RECURSIVE ProdSizes(_)
ProdSizes(values) ==
    IF values = <<>> THEN 1 ELSE Len(Head(values).v) * ProdSizes(Tail(values))

NoRepeat(seq) == \A i, j \in 1..Len(seq) : i # j => seq[i] # seq[j]

DistinctFactorValues(values) == \A j \in 1..Len(values) : NoRepeat(values[j].v)

\* Everything C1 says of a cross product but "no combination repeated".
ProductShape(values, cp) ==
    /\ Len(cp) = ProdSizes(values)
    /\ cp = NestedLoops(values)
    /\ \A i \in 1..Len(cp) :
        /\ DictKeys(cp[i]) = DictKeys(values)
        /\ \A j \in 1..Len(values) :
            \E n \in 1..Len(values[j].v) : cp[i][j].v = values[j].v[n]

\* C1 as stated: for a MatrixBlock with k >= 1 factors of sizes n1..nk,
\* cross_product() yields exactly n1*...*nk maps, each with one entry per
\* factor key drawn from that factor's list, in nested-loop order with the
\* last factor fastest, and no combination is yielded twice.
C1_AsStated ==
    \A b \in MatrixBlocks :
        blocks[b].values # <<>> =>
            LET cp == CrossProduct(blocks[b].values) IN
            ProductShape(blocks[b].values, cp) /\ NoRepeat(cp)

\* C1 amended: the same, but no combination is yielded twice only when no
\* factor's list holds a value twice (a = [1, 1] yields {a: 1} twice).
C1_CrossProduct ==
    \A b \in MatrixBlocks :
        blocks[b].values # <<>> =>
            LET cp == CrossProduct(blocks[b].values) IN
            /\ ProductShape(blocks[b].values, cp)
            /\ DistinctFactorValues(blocks[b].values) => NoRepeat(cp)

\* A MatrixBlock with three factors, two of them of two distinct values.
C1_Witness ==
    \E b \in MatrixBlocks :
        /\ Len(blocks[b].values) = 3
        /\ DistinctFactorValues(blocks[b].values)
        /\ Len(CrossProduct(blocks[b].values)) = 4

\* The calls made by the logged MatrixBlock.open_block call i, in call order.
DirectCalls(i) == SelectSeq([j \in 1..Len(log) |-> j], LAMBDA j : log[j].by = i)

MatrixCalls == { i \in 1..Len(log) : log[i].op = "matrix_open_block" }

\* The block enclosing MatrixBlock b: the block of the context the matrix
\* statement was executed in.
Enclosing(b) == ctxs[blocks[b].mctx].block

\* The contexts created with parent c.
Children(c) == { d \in 1..Len(ctxs) : ctxs[d].parent = c }

\* C2 as stated: a MatrixBlock with no factor yields no combination, and
\* open_block on a nested block statement then never invokes the enclosing
\* block's opener.
C2_AsStated ==
    \A i \in MatrixCalls :
        log[i].values = <<>> =>
            /\ CrossProduct(log[i].values) = <<>>
            /\ DirectCalls(i) = <<>>

\* C2 amended: a MatrixBlock with no factor yields exactly one combination,
\* the empty map, and open_block on a nested block statement then invokes
\* the enclosing block's opener exactly once, with a child context that
\* binds no variable.
C2_NoFactors ==
    /\ \A b \in MatrixBlocks :
        blocks[b].values = <<>> => CrossProduct(blocks[b].values) = << <<>> >>
    /\ \A i \in MatrixCalls :
        log[i].values = <<>> =>
            /\ Len(DirectCalls(i)) = 1
            /\ LET call == log[DirectCalls(i)[1]] IN
                /\ call.on = Enclosing(log[i].on)
                /\ call.node = log[i].node
                /\ ctxs[call.ctx].parent = log[i].ctx
                /\ ctxs[call.ctx].variables = <<>>

\* open_block of a MatrixBlock with no factor has opened one hello block.
C2_Witness ==
    \E i \in MatrixCalls :
        /\ log[i].values = <<>>
        /\ err = NoErr
        /\ \E j \in 1..Len(log) :
            /\ log[j].by = i
            /\ log[j].op = "open_block"
            /\ \E d \in Children(log[j].ctx) : blocks[ctxs[d].block].cls = "Hello"

\* C3: MatrixBlock.open_block calls open_block of the enclosing block (never
\* of the MatrixBlock itself) once per combination of cross_product(), in
\* product order, each time with the statement and a child of its context
\* whose variables are that combination; an exception raised by one of the
\* calls ends the loop there.  With the body v = a and a factor a, the hello
\* block opened for a combination has v equal to that combination's a.
C3_OpenBlockPerCombination ==
    \A i \in MatrixCalls :
        LET e == log[i]
            combos == CrossProduct(e.values)
            calls == DirectCalls(i)
        IN  /\ Len(calls) <= Len(combos)
            /\ err = NoErr => Len(calls) = Len(combos)
            /\ \A n \in 1..Len(calls) :
                LET call == log[calls[n]] IN
                /\ call.on = Enclosing(e.on)
                /\ call.on # e.on
                /\ call.node = e.node
                /\ ctxs[call.ctx].parent = e.ctx
                /\ ctxs[call.ctx].variables = combos[n]
                /\ ( /\ call.op = "open_block"
                     /\ e.node.body = << Attribute("v", Identifier("a")) >>
                     /\ DictHas(combos[n], "a") )
                   => \A d \in Children(call.ctx) :
                        /\ blocks[ctxs[d].block].cls = "Hello"
                        /\ DictHas(blocks[ctxs[d].block].attrs, "v")
                        /\ DictGet(blocks[ctxs[d].block].attrs, "v") = DictGet(combos[n], "a")

\* Factors a = [1, 2] and b = [1, 2] with the body hello { v = a }: four
\* hello blocks have been opened.
C3_Witness ==
    \E i \in MatrixCalls :
        /\ err = NoErr
        /\ log[i].values = << [k |-> "a", v |-> <<Scalar("1"), Scalar("2")>>],
                              [k |-> "b", v |-> <<Scalar("1"), Scalar("2")>>] >>
        /\ log[i].node.body = << Attribute("v", Identifier("a")) >>
        /\ Len(DirectCalls(i)) = 4
        /\ \A n \in 1..4 :
            /\ log[DirectCalls(i)[n]].op = "open_block"
            /\ \E d \in Children(log[DirectCalls(i)[n]].ctx) :
                DictGet(blocks[ctxs[d].block].attrs, "v") = Scalar(IF n <= 2 THEN "1" ELSE "2")

\* The names the statements and expressions of the programs use.
Names == {"a", "b", "v", "w", "r", "z"}

Contexts == 1..Len(ctxs)

\* The objects of the heap, with no exception pending.
Heap == [St EXCEPT !.err = NoErr]

\* get(name) issued on context c, in the engine that runs.
Get(bl, cx, c, name) ==
    IF engine = "api" THEN ContextAttributeGet(bl, ChainOf(cx, c), name)
    ELSE AttrGet(bl, ChainOf(cx, c), Identifier(name))

\* set(name, value) issued on context c, in the engine that runs.
Set(st, c, name, value) ==
    IF engine = "api" THEN ContextAttributeSet(st, c, name, Scalar(value))
    ELSE AttrSet(st, c, Attribute(name, Literal(value)))

\* The block of the context recognizes name as an attribute to read and
\* holds a value for it.
Recognizes(context, name) ==
    IF engine = "api"
    THEN IsStanza(context) /\ DictHas(blocks[context.block].attrs, name)
    ELSE /\ name \in BlockAttributes(blocks[context.block].cls)
         /\ DictHas(blocks[context.block].attrs, name)

\* The block of the context accepts name in set.
Accepts(context, name) ==
    IF engine = "api"
    THEN IsStanza(context) /\ DictHas(blocks[context.block].attrs, name)
    ELSE \/ blocks[context.block].cls = "MatrixBlock"
         \/ name \in BlockAttributes(blocks[context.block].cls)

\* The value at the nearest context of the chain that binds name as a local
\* variable or whose block recognizes it.
RECURSIVE Nearest(_, _)
Nearest(chain, name) ==
    IF chain = <<>> THEN [found |-> FALSE, val |-> None]
    ELSE IF DictHas(Head(chain).variables, name)
    THEN [found |-> TRUE, val |-> DictGet(Head(chain).variables, name)]
    ELSE IF Recognizes(Head(chain), name)
    THEN [found |-> TRUE, val |-> DictGet(blocks[Head(chain).block].attrs, name)]
    ELSE Nearest(Tail(chain), name)

NotFound(e, name) ==
    e.kind \in {"AttributeError", "ConfigurationError"} /\ e.what = name /\ e.causes = <<>>

\* C4 (as stated): in both engines, get(name) from any context returns the
\* value at the nearest context on the parent chain that binds name as a
\* local variable or whose block recognizes name, the binding first.
C4_AsStated ==
    \A c \in Contexts, name \in Names :
        LET n == Nearest(ChainOf(ctxs, c), name) IN
        n.found => Get(blocks, ctxs, c, name) = Ok(n.val)

\* C5: set(name, value) on a context writes only the block the context owns;
\* when that block does not accept name the set fails with a not-found error
\* and no block is changed, whatever the ancestors recognize.
C5_SetOwnBlockOnly ==
    \A c \in Contexts, name \in Names :
        LET st == Set(Heap, c, name, "9")
            b == ctxs[c].block
        IN  IF Accepts(ctxs[c], name)
            THEN /\ st.err = NoErr
                 /\ Len(st.blocks) = Len(blocks)
                 /\ \A x \in 1..Len(blocks) : x # b => st.blocks[x] = blocks[x]
            ELSE NotFound(st.err, name) /\ st.blocks = blocks

\* A set of r inside hello has failed although the root recognizes r and
\* holds "2" for it.
C5_Witness ==
    /\ NotFound(err, "r")
    /\ Len(blocks) = 2
    /\ DictHas(blocks[1].attrs, "r")
    /\ DictGet(blocks[1].attrs, "r") = Scalar("2")

\* C6 (as stated): in both engines and for every block type, after a set of
\* an accepted name succeeds, get of that name on the same context returns
\* the value set.
C6_AsStated ==
    \A c \in Contexts, name \in Names :
        LET st == Set(Heap, c, name, "9") IN
        Accepts(ctxs[c], name) /\ st.err = NoErr
            => Get(st.blocks, st.ctxs, c, name) = Ok(Scalar("9"))

\* The same round trip, for the stanza engine alone.
C6_StanzaRoundTrip == engine = "api" => C6_AsStated

\* Some context of the chain has a block registered under the name.
Registered(chain, name) == \E n \in 1..Len(chain) : DictHas(chain[n].named_blocks, name)

\* Some context of the chain has a stanza that provides the function.
Provided(chain, name) ==
    \E n \in 1..Len(chain) :
        IsStanza(chain[n]) /\ DictHas(blocks[chain[n].block].functions, name)

C8_AsStated ==
    \A c \in Contexts, name \in Names :
        LET chain == ChainOf(ctxs, c)
            r == Get(blocks, ctxs, c, name)
        IN  r.err.kind # "none" =>
                /\ Len(r.err.causes) = Len(chain)
                /\ \A n \in 1..Len(chain) : r.err.causes[n].at = chain[n].block

\* C8: a failed Context.attribute_get carries the not-found failure of every
\* context of the chain whose target is a Stanza, in chain order, and none
\* for a target that is no Stanza; a failed ExecContext.attr_get carries no
\* cause at all.
C8_CausesPerStanza ==
    \A c \in Contexts, name \in Names :
        LET chain == ChainOf(ctxs, c)
            stanzas == SelectSeq(chain, IsStanza)
            r == Get(blocks, ctxs, c, name)
        IN  r.err.kind # "none" =>
                IF engine = "api"
                THEN /\ r.err.kind = "ConfigurationError"
                     /\ r.err.at = chain[1].block
                     /\ Len(r.err.causes) = Len(stanzas)
                     /\ \A n \in 1..Len(stanzas) :
                            r.err.causes[n]
                                = ConfigurationError(stanzas[n].block, "attribute", name, <<>>)
                ELSE r.err.kind = "AttributeError" /\ r.err.causes = <<>>

\* w = z inside hello has failed in the stanza engine: the failure carries
\* hello's cause, then the root's.
C8_Witness ==
    /\ engine = "api"
    /\ err.kind = "ConfigurationError" /\ err.op = "attribute" /\ err.what = "z"
    /\ Len(err.causes) = 2
    /\ err.causes[1].at = 2
    /\ err.causes[2].at = 1

\* The context and its ancestors.
RECURSIVE Ancestry(_)
Ancestry(c) == IF c = 0 THEN {} ELSE {c} \cup Ancestry(ctxs[c].parent)

\* The matrix statement that created MatrixBlock b has been executed: the
\* call of execute that ran its body has returned.
Executed(b) == err = NoErr /\ \A n \in 1..Len(frames) : ctxs[frames[n]].block # b

\* The factor names of a MatrixBlock's _values.
FactorNames(values) == { values[n].k : n \in 1..Len(values) }

\* The values of factor k over the combinations, in their order.
Column(combos, k) == [n \in 1..Len(combos) |-> DictGet(combos[n], k)]

\* C9 (as stated): once a matrix statement with argument m has been executed
\* in context C, m__cross(x) for a factor x of its MatrixBlock, called from C
\* or from a descendant of C, returns x's value in every combination of that
\* block, in product order.
C9_AsStated ==
    engine = "exec" =>
        \A b \in MatrixBlocks, d \in Contexts :
            blocks[b].id = Scalar("m") /\ Executed(b) /\ blocks[b].mctx \in Ancestry(d)
                => \A k \in FactorNames(blocks[b].values) :
                      FunctionEval(blocks, ChainOf(ctxs, d), CrossCall(<<Identifier(k)>>))
                          = Ok(List(Column(CrossProduct(blocks[b].values), k)))

\* C9: m__cross(expr) resolves to the block registered last under m in the
\* nearest context of the chain that registers m; a factor name evaluates to
\* its value in every combination of that block, in product order, a literal
\* to itself once per combination, and every expression to what the same
\* call gives when made from the registering context.
C9_NearestRegistration ==
    engine = "exec" =>
        \A d \in Contexts :
            LET chain == ChainOf(ctxs, d) IN
            Registered(chain, "m") =>
                LET n == CHOOSE n \in 1..Len(chain) :
                            /\ DictHas(chain[n].named_blocks, "m")
                            /\ \A j \in 1..(n - 1) : ~DictHas(chain[j].named_blocks, "m")
                    b == DictGet(chain[n].named_blocks, "m")
                    combos == CrossProduct(blocks[b].values)
                IN  /\ \A k \in FactorNames(blocks[b].values) :
                          FunctionEval(blocks, chain, CrossCall(<<Identifier(k)>>))
                              = Ok(List(Column(combos, k)))
                    /\ FunctionEval(blocks, chain, CrossCall(<<Literal("7")>>))
                          = Ok(List([j \in 1..Len(combos) |-> Scalar("7")]))
                    /\ \A name \in Names :
                          FunctionEval(blocks, chain, CrossCall(<<Identifier(name)>>))
                              = FunctionEval(blocks, SubSeq(chain, n, Len(chain)),
                                             CrossCall(<<Identifier(name)>>))

\* matrix "m" { a = ["1", "2"] } and then v = m__cross(a) have been executed
\* on the root.
C9_Witness ==
    /\ engine = "exec"
    /\ DictHas(blocks[1].attrs, "v")
    /\ DictGet(blocks[1].attrs, "v") = List(<<Scalar("1"), Scalar("2")>>)

\* The block of the context recognizes name as a block to open.
Opens(context, name) ==
    IF engine = "api"
    THEN IsStanza(context) /\ DictHas(blocks[context.block].stanza_openers, name)
    ELSE /\ DictHas(BlockOpeners, name)
         /\ DictGet(BlockOpeners, name) \in Methods(blocks[context.block].cls)

\* The block statement name {} executed in context c, in the engine that
\* runs.
Open(st, c, name) ==
    IF engine = "api" THEN HandleBlock(st, c, BlockStmt(name, <<>>, <<>>))
    ELSE ExecStmt(st, c, BlockStmt(name, <<>>, <<>>))

\* The contexts whose block is no MatrixBlock.
PlainContexts ==
    { c \in Contexts : ctxs[c].block = 0 \/ blocks[ctxs[c].block].cls # "MatrixBlock" }

\* C10 (as stated): opening a name the context's own block does not
\* recognize succeeds when the block of some ancestor recognizes it, and
\* otherwise fails with a cause for every ancestor tried.
C10_AsStated ==
    \A c \in PlainContexts, name \in {"hello", "nope"} :
        LET chain == ChainOf(ctxs, c)
            st == Open(Heap, c, name)
        IN  ~Opens(ctxs[c], name) =>
                IF \E n \in 2..Len(chain) : Opens(chain[n], name)
                THEN st.err = NoErr
                ELSE st.err.kind # "none" /\ Len(st.err.causes) >= Len(chain) - 1

\* C10: opening a name the context's own block does not recognize fails at
\* once with a not-found error without causes, whatever the ancestors
\* recognize, and creates no block and no context; a recognized name opens
\* one new block in a child of the context.
C10_NoEscalation ==
    \A c \in PlainContexts, name \in {"hello", "nope"} :
        LET st == Open(Heap, c, name) IN
        IF Opens(ctxs[c], name)
        THEN /\ st.err = NoErr
             /\ Len(st.blocks) = Len(blocks) + 1
             /\ st.ctxs = Append(ctxs, NewContext(Len(blocks) + 1, c))
        ELSE /\ st.err.kind \in {"AttributeError", "ConfigurationError"}
             /\ st.err.causes = <<>>
             /\ st.blocks = blocks
             /\ st.ctxs = ctxs

\* hello { hello {} } has been executed on the root, which recognizes hello:
\* the inner statement has failed.
C10_Witness ==
    /\ err.kind \in {"AttributeError", "ConfigurationError"}
    /\ err.op \in {"open_block", "open_block_getattr", "stanza"}
    /\ err.what = "hello"
    /\ Len(ctxs) = 2
    /\ Opens(ctxs[1], "hello")

\* The logged openings of a nested block through the owning block's opener.
Opened ==
    { i \in 1..Len(log) :
        \/ log[i].op = "stanza_open"
        \/ /\ log[i].op = "open_block"
           /\ DictHas(BlockOpeners, log[i].node.name)
           /\ DictGet(BlockOpeners, log[i].node.name) \in Methods(blocks[log[i].on].cls) }

Closes == { i \in 1..Len(log) : log[i].op = "close" }

\* The logged statements and close calls of context c, in call order.
Own(c) == SelectSeq(log, LAMBDA e : e.ctx = c /\ e.op \in {"execute", "close"})

\* The statements of a body in source order against context c, then one
\* close of c.
InOrderThenClose(c, body) ==
    [n \in 1..Len(body) |-> Event("execute", ctxs[c].block, c, body[n], 0, <<>>)]
    \o << Event("close", ctxs[c].block, c, BlockStmt("", <<>>, <<>>), 0, <<>>) >>

IsPrefix(s, t) == Len(s) <= Len(t) /\ s = SubSeq(t, 1, Len(s))

\* C11 (as stated): in both engines, when no statement has failed every
\* nested block opened has had its finalize hook invoked exactly once.
C11_AsStated == err = NoErr => Cardinality(Closes) = Cardinality(Opened)

\* C11: in the stanza engine a nested block gets a context whose parent is
\* the context of its statement; the statements of its body run against it
\* in source order, then close is called on it once, before any later
\* statement of the enclosing body; a body statement that fails leaves the
\* context without a close.  The execution engine never calls a finalize
\* hook.
C11_BodyThenClose ==
    IF engine = "exec" THEN Closes = {}
    ELSE \A i \in Opened :
            LET c == log[i].ctx
                complete == InOrderThenClose(c, log[i].node.body)
            IN  /\ log[i - 1] = Event("execute", ctxs[ctxs[c].parent].block,
                                      ctxs[c].parent, log[i].node, 0, <<>>)
                /\ IsPrefix(Own(c), complete)
                /\ err = NoErr => Own(c) = complete
                /\ \A j \in (i + 1)..Len(log) :
                      \/ c \in Ancestry(log[j].ctx)
                      \/ \E k \in (i + 1)..(j - 1) : log[k].op = "close" /\ log[k].ctx = c

\* hello { v = "1"  w = v } and then a sibling statement have been executed
\* in the stanza engine.
C11_Witness ==
    /\ engine = "api" /\ err = NoErr
    /\ \E i \in Opened :
          /\ Len(log[i].node.body) = 2
          /\ Own(log[i].ctx) = InOrderThenClose(log[i].ctx, log[i].node.body)
          /\ log[Len(log)].op = "execute" /\ log[Len(log)].ctx = 1

\* hello { w = z } has failed in the stanza engine: hello was opened and
\* never closed.
C11_WitnessFailed ==
    engine = "api" /\ err # NoErr /\ Opened # {} /\ Closes = {}

\* One expression of every kind.
ExprOfKind(kind) ==
    CASE kind = "Literal" -> Literal("1")
      [] kind = "Identifier" -> Identifier("v")
      [] kind = "Array" -> Array(<<Literal("1")>>)
      [] kind = "Object" -> Object(<<"k">>, <<Literal("1")>>)
      [] kind = "FunctionCall" -> IF engine = "api" THEN FCall(<<Literal("2")>>)
                                  ELSE CrossCall(<<Literal("2")>>)
      [] kind = "GetAttr" -> GetAttr(Literal("1"), "v")
      [] kind = "GetIndex" -> GetIndex(Array(<<Literal("1")>>), Literal("0"))
      [] kind = "UnaryOp" -> UnaryOp("!", Literal("1"))
      [] kind = "BinaryOp" -> BinaryOp("==", Literal("1"), Literal("1"))
      [] kind = "IndexSplat" -> IndexSplat(Array(<<Literal("1")>>))
      [] kind = "AttrSplat" -> AttrSplat(Array(<<Literal("1")>>), "v")

\* getattr(self, "_eval_" + kind) has failed.
MissingHandler(e) == e = Raise("AttributeError", "getattr", "_eval_")

\* Evaluator.evaluate in the stanza engine, EvalContext.eval in the
\* execution engine.
Dispatch(c, expr) ==
    IF engine = "api" THEN Evaluate(blocks, ChainOf(ctxs, c), expr)
    ELSE EvalContextEval(blocks, ChainOf(ctxs, c), expr)

\* C12 (as stated): for every expression kind the evaluator has a handler,
\* so evaluation never fails for a missing handler, and the splat forms fail
\* with NotImplementedError.
C12_AsStated ==
    \A c \in Contexts, kind \in ExpressionKinds :
        LET r == Dispatch(c, ExprOfKind(kind)) IN
        /\ ~MissingHandler(r.err)
        /\ kind \in {"IndexSplat", "AttrSplat"} => r.err.kind = "NotImplementedError"

\* The same, for EvalContext of eval.py alone.
C12_EvalContextTotal == engine = "exec" => C12_AsStated

\* Evaluator of api.py has a handler for exactly the kinds other than
\* GetIndex and the splat forms.
C12_EvaluatorHandlers ==
    engine = "api" =>
        \A c \in Contexts, kind \in ExpressionKinds :
            MissingHandler(Dispatch(c, ExprOfKind(kind)).err)
                <=> kind \in {"GetIndex", "IndexSplat", "AttrSplat"}

\* The contexts from which on evaluates to a block-shaped value, with the
\* stanza it stands for.
BlockShaped(c, on) ==
    LET r == EvaluatorHandle(blocks, ChainOf(ctxs, c), on) IN
    r.err.kind = "none" /\ r.val.s = "Context" /\ r.val.ref # 0

StanzaOf(c, on) == EvaluatorHandle(blocks, ChainOf(ctxs, c), on).val.ref

\* GetAttr(s, name), with s block-shaped and name not recognized by its
\* block, fails with not-found.
C13_FailsNotFound ==
    \A c \in Contexts, name \in Names :
        /\ BlockShaped(c, Identifier("s"))
        /\ ~DictHas(blocks[StanzaOf(c, Identifier("s"))].attrs, name)
        => LET r == Evaluate(blocks, ChainOf(ctxs, c), GetAttr(Identifier("s"), name)) IN
           r.err.kind = "ConfigurationError" /\ r.err.op = "attribute" /\ r.err.what = name

\* The lookup made on the context of a block-shaped value fails when the
\* block does not recognize name.
C13_LookupScoped ==
    \A c \in Contexts, name \in Names :
        /\ BlockShaped(c, Identifier("s"))
        /\ ~DictHas(blocks[StanzaOf(c, Identifier("s"))].attrs, name)
        => ContextAttributeGet(blocks,
                               ContextStanza(StanzaOf(c, Identifier("s")), ChainOf(ctxs, c)),
                               name).err.kind = "ConfigurationError"

\* C13 (as stated): GetAttr(on, name) with a block-shaped on looks name up
\* in that block only: a name the block does not recognize fails with
\* not-found, and no value of the ambient context or its ancestors is
\* returned.
C13_AsStated == C13_FailsNotFound /\ C13_LookupScoped

\* GetAttr on a stanza-valued attribute never yields a value: evaluating s
\* already fails the check of the value returned by evaluate.
C13_NeverEvaluates ==
    \A c \in Contexts, name \in Names :
        BlockShaped(c, Identifier("s"))
            => Evaluate(blocks, ChainOf(ctxs, c), GetAttr(Identifier("s"), name))
                    = Fail("BeartypeException", "evaluate", "Identifier")

\* The contexts whose block is a MatrixBlock.
MatrixContexts == { c \in Contexts : blocks[ctxs[c].block].cls = "MatrixBlock" }

\* C14 (as stated): every stored factor of every MatrixBlock is a non-empty
\* list.
C14_AsStated ==
    \A b \in MatrixBlocks :
        \A n \in 1..Len(blocks[b].values) : blocks[b].values[n].v # <<>>

\* C14: an assignment on a MatrixBlock stores, under the name assigned, the
\* list the value is, or the one-element list of a value that is no list,
\* and leaves the other factors as they are; the factor stored is empty
\* exactly when the empty list is assigned.
C14_StoresList ==
    \A c \in MatrixContexts, k \in {"a", "b"}, e \in FactorExprs :
        LET b == ctxs[c].block
            r == Eval(blocks, ChainOf(ctxs, c), e)
            st == AttrSet(Heap, c, Attribute(k, e))
            stored == DictGet(st.blocks[b].values, k)
        IN  /\ r.err = NoErr /\ st.err = NoErr
            /\ stored = IF r.val.list THEN r.val.elems ELSE <<r.val>>
            /\ stored = <<>> <=> r.val = List(<<>>)
            /\ \A x \in FactorNames(blocks[b].values) \ {k} :
                  DictGet(st.blocks[b].values, x) = DictGet(blocks[b].values, x)
            /\ FactorNames(st.blocks[b].values) = FactorNames(blocks[b].values) \cup {k}

\* a = "1" and b = ["1", "2"] have been executed in a matrix body.
C14_Witness ==
    \E b \in MatrixBlocks :
        /\ DictHas(blocks[b].values, "a") /\ DictHas(blocks[b].values, "b")
        /\ DictGet(blocks[b].values, "a") = <<Scalar("1")>>
        /\ DictGet(blocks[b].values, "b") = <<Scalar("1"), Scalar("2")>>

\* The calls whose resolution is probed: an unqualified name, qualified names
\* of two segments with m, which a matrix statement registers, and n, which
\* none does, and a qualified name of three segments.
ProbeCalls ==
    { FCall(<<>>), CrossCall(<<Identifier("a")>>),
      FunctionCall("n__cross", <<"n", "cross">>, <<Identifier("a")>>),
      FunctionCall("m__nope", <<"m", "nope">>, <<>>),
      FunctionCall("m__x__cross", <<"m", "x", "cross">>, <<Identifier("a")>>) }

\* Some context of the chain can resolve the call: in the block engine a name
\* of two segments whose first is registered for a block that has the
\* function of the second; in the stanza engine a stanza that provides the
\* name.
Resolvable(chain, node) ==
    IF engine = "exec"
    THEN /\ Len(node.parts) = 2
         /\ \E n \in 1..Len(chain) :
                /\ DictHas(chain[n].named_blocks, node.parts[1])
                /\ DictHas(BlockFunctions, node.parts[2])
                /\ DictGet(BlockFunctions, node.parts[2])
                        \in Methods(blocks[DictGet(chain[n].named_blocks, node.parts[1])].cls)
    ELSE Provided(chain, node.name)

\* The failure of the last context asked: 'function does not exist', in the
\* stanza engine with one cause per stanza of the chain, nearest first.
FunctionDoesNotExist(chain, node, e) ==
    IF engine = "exec"
    THEN e = Raise("AttributeError", "function_eval", node.name)
    ELSE LET stanzas == SelectSeq(chain, IsStanza) IN
         /\ e.kind = "ConfigurationError" /\ e.op = "function" /\ e.what = node.name
         /\ e.at = chain[1].block
         /\ Len(e.causes) = Len(stanzas)
         /\ \A n \in 1..Len(stanzas) :
                e.causes[n] = ConfigurationError(stanzas[n].block, "function", node.name, <<>>)

\* The error of resolving the call from the chain.
ResolveError(chain, node) ==
    IF engine = "exec" THEN FunctionEval(blocks, chain, node).err
    ELSE ContextFunctionGet(blocks, chain, node.name).err

\* C15 as stated: resolving a call that no context of the chain can resolve
\* asks every context from the caller up to the root and fails with
\* 'function does not exist'.
C15_AsStated ==
    \A c \in Contexts, node \in ProbeCalls :
        LET chain == ChainOf(ctxs, c) IN
        ~Resolvable(chain, node) => FunctionDoesNotExist(chain, node, ResolveError(chain, node))

\* The part of C15 that the code has: a call of at most two segments, or one
\* whose first segment no context of the chain registers, that no context
\* can resolve fails with 'function does not exist' of the root.
C15_ShortNamesNotFound ==
    \A c \in Contexts, node \in ProbeCalls :
        LET chain == ChainOf(ctxs, c) IN
        ~Resolvable(chain, node) /\ (Len(node.parts) <= 2 \/ ~Registered(chain, node.parts[1]))
            => FunctionDoesNotExist(chain, node, ResolveError(chain, node))

\* A name of three segments whose first is registered: getattr on the block
\* raises in the first context that registers it, outside the try, and no
\* parent is asked.
C15_LongNameRaisesAtBlock ==
    \A c \in Contexts, node \in ProbeCalls :
        LET chain == ChainOf(ctxs, c) IN
        engine = "exec" /\ Len(node.parts) = 3 /\ Registered(chain, node.parts[1])
            => ResolveError(chain, node) = Raise("AttributeError", "getattr", node.parts[2])

\* m is registered in the block engine, n is not: m__nope and n__cross are
\* asked of a chain of two contexts.
C15_Witness ==
    /\ engine = "exec"
    /\ \E c \in Contexts :
        /\ Len(ChainOf(ctxs, c)) >= 2
        /\ Registered(ChainOf(ctxs, c), "m")
        /\ ~Registered(ChainOf(ctxs, c), "n")

\* The calls made by call i of a log, in call order.
DirectCallsIn(lg, i) == SelectSeq([j \in 1..Len(lg) |-> j], LAMBDA j : lg[j].by = i)

\* The step assigns a factor of some MatrixBlock.
AssignsFactor ==
    \E b \in MatrixBlocks : blocks'[b].values # blocks[b].values

\* The instances opened for the logged call i of a MatrixBlock's open_block:
\* the bindings of the contexts passed on, in call order.
Instances(lg, cs, i) ==
    [n \in 1..Len(DirectCallsIn(lg, i)) |-> cs[lg[DirectCallsIn(lg, i)[n]].ctx].variables]

\* C16: the statements of a matrix body take effect one after the other.  A
\* nested block statement executed by the body is expanded over the factors
\* as the statements before it left them: one instance per combination of
\* their cross product, bound to it, in product order.  A later statement,
\* a factor assignment in particular, leaves every instance that is
\* already opened as it is, and a factor assignment opens none.
C16_BodyInSourceOrder ==
    [][ /\ IsPrefix(log, log')
        /\ \A c \in 1..Len(ctxs) :
            /\ c <= Len(ctxs')
            /\ ctxs'[c].block = ctxs[c].block
            /\ ctxs'[c].parent = ctxs[c].parent
            /\ ctxs'[c].variables = ctxs[c].variables
        /\ \A i \in 1..Len(log) : Instances(log', ctxs', i) = Instances(log, ctxs, i)
        /\ AssignsFactor => log' = log /\ Len(ctxs') = Len(ctxs)
        /\ \A i \in (Len(log) + 1)..Len(log') :
            (log'[i].op = "matrix_open_block" /\ log'[i].by = 0) =>
                LET before == blocks[log'[i].on].values IN
                /\ log'[i].ctx = Top
                /\ log'[i].values = before
                /\ err' = NoErr => Instances(log', ctxs', i) = CrossProduct(before)
      ]_vars

\* matrix { a = [1, 2]  hello {}  b = [1, 2] }: the two instances of hello
\* were opened for a alone, and the block now has the factors a and b.
C16_Witness ==
    \E i \in MatrixCalls :
        /\ err = NoErr
        /\ log[i].by = 0
        /\ log[i].values = << [k |-> "a", v |-> <<Scalar("1"), Scalar("2")>>] >>
        /\ Instances(log, ctxs, i) = << <<[k |-> "a", v |-> Scalar("1")]>>,
                                        <<[k |-> "a", v |-> Scalar("2")]>> >>
        /\ blocks[log[i].on].values
            = << [k |-> "a", v |-> <<Scalar("1"), Scalar("2")>>],
                 [k |-> "b", v |-> <<Scalar("1"), Scalar("2")>>] >>

====
